---- MODULE Spec2Model ----
(***************************************************************************)
(* Model of collocation_generator.py: the markup-to-card pipeline          *)
(*   parse_collocation_html / _parse_sb_g   (markup tree -> Sense cards)   *)
(*   generate_collocations_html             (Sense -> presentation fragment)*)
(*   generate_anki_import_file              (cards -> tab/newline text)    *)
(*                                                                         *)
(* Text is a sequence of characters.  A character is a one-token string:   *)
(* letters and digits stand for themselves, "SP" "LF" "CR" "TAB" are the   *)
(* whitespace characters, "zh" "yi" are CJK characters.  The literal       *)
(* markup the renderer emits is one token per literal.                     *)
(*                                                                         *)
(* A markup document is the node tree html.parser builds from the text:    *)
(* a node is [tag, sl, text, kids]; tag "#text" is a string node.  The     *)
(* soup is that tree plus the set of nodes decompose() has destroyed, kept *)
(* as paths (child indices from the root) so that references obtained      *)
(* before a decompose() stay valid, as object references do in bs4.        *)
(***************************************************************************)
EXTENDS Integers, Sequences, FiniteSets, TLC

VARIABLES html_content, word, freq_map, soup, cards, import_content, pc

\* main: the frequency file, the word list as the word source delivered it
\* and as the loop reads it, the dictionary, the loop index, the three
\* accumulators, the program position; origin, queried and parsed are the
\* history of the loop (the queried word of each card of all_cards, the
\* words looked up, the words parsed)
VARIABLES freq_file, word_list0, word_list, mdx, idx, all_cards, failed_words,
          success_count, mpc, origin, queried, parsed

mainvars == <<freq_file, word_list0, word_list, mdx, idx, all_cards,
              failed_words, success_count, mpc, origin, queried, parsed>>

vars == <<html_content, word, freq_map, soup, cards, import_content, pc,
          freq_file, word_list0, word_list, mdx, idx, all_cards, failed_words,
          success_count, mpc, origin, queried, parsed>>

(***************************************************************************)
(* Characters and Python string methods                                    *)
(***************************************************************************)
Whitespace == {"SP", "LF", "CR", "TAB"}

RECURSIVE LStrip(_)
LStrip(s) ==
    IF s = <<>> THEN s
    ELSE IF Head(s) \in Whitespace THEN LStrip(Tail(s)) ELSE s

RECURSIVE RStrip(_)
RStrip(s) ==
    IF s = <<>> THEN s
    ELSE IF s[Len(s)] \in Whitespace THEN RStrip(SubSeq(s, 1, Len(s) - 1))
    ELSE s

\* str.strip()
Strip(s) == RStrip(LStrip(s))

\* re.sub(r'\s+', ' ', s): every maximal run of whitespace becomes one space
RECURSIVE CollapseSpace(_)
CollapseSpace(s) ==
    IF s = <<>> THEN s
    ELSE IF Head(s) \in Whitespace
         THEN <<"SP">> \o CollapseSpace(LStrip(s))
         ELSE <<Head(s)>> \o CollapseSpace(Tail(s))

\* str.replace(c, ''): every occurrence of the character removed
RemoveChar(s, c) == SelectSeq(s, LAMBDA x : x # c)

\* sep.join(parts)
RECURSIVE Join(_, _)
Join(sep, parts) ==
    IF parts = <<>> THEN <<>>
    ELSE IF Len(parts) = 1 THEN parts[1]
    ELSE parts[1] \o sep \o Join(sep, Tail(parts))

\* ''.join(parts)
RECURSIVE Concat(_)
Concat(parts) ==
    IF parts = <<>> THEN <<>> ELSE Head(parts) \o Concat(Tail(parts))

\* str.upper() of the allow-listed type codes
Upper(sl) ==
    CASE sl = "verbs"      -> <<"V", "E", "R", "B", "S">>
      [] sl = "verbandhwd" -> <<"V", "E", "R", "B", "A", "N", "D", "H", "W", "D">>
      [] sl = "hwdandverb" -> <<"H", "W", "D", "A", "N", "D", "V", "E", "R", "B">>
      [] sl = "prep"       -> <<"P", "R", "E", "P">>
      [] OTHER             -> <<>>

\* the allow-list with the idioms code let through
KeepSlTypesWithIdioms == {"verbs", "verbandhwd", "hwdandverb", "prep", "idioms"}

KEEP_SL_TYPES == {"verbs", "verbandhwd", "hwdandverb", "prep"}

(***************************************************************************)
(* The node tree and the bs4 operations the parser uses                    *)
(***************************************************************************)
\* F applied to the value of v: v is computed once, however often F uses it
Bind(v, F(_)) == CHOOSE y \in {F(x) : x \in {v}} : TRUE

Text(s) == [tag |-> "#text", sl |-> "", text |-> s, kids |-> <<>>]
Elem(tag, kids) == [tag |-> tag, sl |-> "", text |-> <<>>, kids |-> kids]
Blk(sl, kids) == [tag |-> "sl-g-blk", sl |-> sl, text |-> <<>>, kids |-> kids]

\* the node at path p below node n
RECURSIVE At(_, _)
At(n, p) == IF p = <<>> THEN n ELSE At(n.kids[Head(p)], Tail(p))

\* BeautifulSoup(html_content, 'html.parser'): a fresh tree, nothing destroyed
BeautifulSoup(doc) ==
    [root |-> Elem("[document]", doc), gone |-> {}, log |-> <<>>]

\* the live descendants of node n, which is at path p, in document order
RECURSIVE DescOf(_, _, _)
DescOf(gone, n, p) ==
    Concat([i \in 1..Len(n.kids) |->
               IF (p \o <<i>>) \in gone THEN <<>>
               ELSE <<p \o <<i>>>> \o DescOf(gone, n.kids[i], p \o <<i>>)])

Descendants(sp, p) == DescOf(sp.gone, At(sp.root, p), p)

\* the live direct children of the node at p
Children(sp, p) ==
    SelectSeq([i \in 1..Len(At(sp.root, p).kids) |-> p \o <<i>>],
              LAMBDA c : c \notin sp.gone)

\* node.find_all(tags)
FindAll(sp, p, tags) ==
    SelectSeq(Descendants(sp, p), LAMBDA c : At(sp.root, c).tag \in tags)

\* node.find_all(tag, recursive=False)
FindAllDirect(sp, p, tag) ==
    SelectSeq(Children(sp, p), LAMBDA c : At(sp.root, c).tag = tag)

\* node.find(tag): the first match as a sequence of length 1, <<>> for None
Find(sp, p, tag) ==
    Bind(FindAll(sp, p, {tag}),
         LAMBDA all : IF all = <<>> THEN <<>> ELSE <<all[1]>>)

\* the string nodes below p, in document order
Strings(sp, p) ==
    Bind(SelectSeq(Descendants(sp, p), LAMBDA c : At(sp.root, c).tag = "#text"),
         LAMBDA ts : [i \in 1..Len(ts) |-> At(sp.root, ts[i]).text])

\* node.get_text(): the strings below p joined
GetTextRaw(sp, p) == Concat(Strings(sp, p))

\* node.get_text(strip=True): each string stripped, then joined
GetText(sp, p) ==
    Bind(Strings(sp, p),
         LAMBDA ss : Concat([i \in 1..Len(ss) |-> Strip(ss[i])]))

\* tag.decompose() for every tag of the list
Decompose(sp, ps) ==
    Bind(ps, LAMBDA l : [sp EXCEPT !.gone = @ \cup {l[i] : i \in 1..Len(l)}])

\* the subtree at p as the parser sees it now: destroyed nodes pruned
RECURSIVE LiveTree(_, _)
LiveTree(sp, p) ==
    Bind(Children(sp, p),
         LAMBDA cs : [At(sp.root, p) EXCEPT
                         !.kids = [i \in 1..Len(cs) |-> LiveTree(sp, cs[i])]])

\* history of the extractions made on this soup: what the node looked like
\* when the extraction began, and what the extraction returned
Logged(sp, kind, pre, result) ==
    [sp EXCEPT !.log = Append(@, [kind |-> kind, pre |-> pre,
                                  result |-> result])]

(***************************************************************************)
(* _parse_sb_g                                                             *)
(***************************************************************************)
\* lines 376-378: the gloss of this <cl>, or the one held so far
ClGloss(sp, cl, chn_text) ==
    Bind(Find(sp, cl, "chn"),
         LAMBDA chn : IF chn # <<>> THEN GetText(sp, chn[1]) ELSE chn_text)

\* lines 380-381
ClStrip(sp, cl) == Decompose(sp, FindAll(sp, cl, {"chn", "chnsep"}))

\* lines 375-382: one <cl>; the result carries the soup after the stripping
ParseCl(sp, cl, chn_text) ==
    Bind(ClGloss(sp, cl, chn_text), LAMBDA chn1 :
    Bind(ClStrip(sp, cl), LAMBDA sp1 :
        [sp |-> sp1, chn_text |-> chn1, cl_text |-> GetText(sp1, cl)]))

\* the phrase appended without the test of line 383
AddWordUnchecked(collocations, cl_text) == Append(collocations, cl_text)

\* lines 383-384
AddWord(collocations, cl_text) ==
    IF cl_text # <<>> THEN Append(collocations, cl_text) ELSE collocations

\* lines 372-384: the loop over the direct <cl> children
RECURSIVE ClLoop(_, _, _, _, _)
ClLoop(sp, cls, i, collocations, chn_text) ==
    IF i > Len(cls)
    THEN [sp |-> sp, collocations |-> collocations, chn_text |-> chn_text]
    ELSE Bind(ParseCl(sp, cls[i], chn_text), LAMBDA r :
         Bind(Logged(r.sp, "cl", LiveTree(sp, cls[i]),
                     [cl_text |-> r.cl_text, chn_text |-> r.chn_text]),
              LAMBDA sp1 :
         Bind(AddWord(collocations, r.cl_text), LAMBDA collocations1 :
             ClLoop(sp1, cls, i + 1, collocations1, r.chn_text))))

\* lines 394-395: the secondary text of the example, read before the stripping
ExampleCn(sp, x_elem) ==
    Bind(Find(sp, x_elem, "chn"),
         LAMBDA x_chn : IF x_chn # <<>> THEN GetText(sp, x_chn[1]) ELSE <<>>)

\* lines 397-398
ExampleStrip(sp, x_elem) ==
    Decompose(sp, FindAll(sp, x_elem, {"chn", "chnsep", "fthzmark"}))

\* lines 400-401
AddExample(ex_en, ex_cn) ==
    IF ex_en # <<>> THEN <<[en |-> ex_en, cn |-> ex_cn]>> ELSE <<>>

\* the example stripped before its secondary text is read
ParseExampleStripFirst(sp, x_elem) ==
    Bind(ExampleStrip(sp, x_elem), LAMBDA sp1 :
    Bind(ExampleCn(sp1, x_elem), LAMBDA ex_cn :
        [sp |-> sp1, out |-> AddExample(GetText(sp1, x_elem), ex_cn)]))

\* lines 394-401: one <x>; out is <<example>> or <<>> when it is dropped
ParseExample(sp, x_elem) ==
    Bind(ExampleCn(sp, x_elem), LAMBDA ex_cn :
    Bind(ExampleStrip(sp, x_elem), LAMBDA sp1 :
        [sp |-> sp1, out |-> AddExample(GetText(sp1, x_elem), ex_cn)]))

\* lines 391-401: the loop over the direct <x-blk> children
RECURSIVE ExamplesLoop(_, _, _, _)
ExamplesLoop(sp, x_blks, i, examples) ==
    IF i > Len(x_blks) THEN [sp |-> sp, examples |-> examples]
    ELSE Bind(Find(sp, x_blks[i], "x"), LAMBDA x_elem :
         IF x_elem = <<>>
         THEN ExamplesLoop(sp, x_blks, i + 1, examples)
         ELSE Bind(ParseExample(sp, x_elem[1]), LAMBDA r :
              Bind(Logged(r.sp, "x", LiveTree(sp, x_elem[1]), r.out),
                   LAMBDA sp1 :
              Bind(examples \o r.out, LAMBDA examples1 :
                  ExamplesLoop(sp1, x_blks, i + 1, examples1)))))

\* lines 366-407: item is <<item>>, or <<>> for None
parse_sb_g(sp, sb_g) ==
    Bind(FindAllDirect(sp, sb_g, "cl"), LAMBDA cls :
    Bind(ClLoop(sp, cls, 1, <<>>, <<>>), LAMBDA c :
        IF c.collocations = <<>> THEN [sp |-> c.sp, item |-> <<>>]
        ELSE Bind(FindAllDirect(c.sp, sb_g, "x-blk"), LAMBDA x_blks :
             Bind(ExamplesLoop(c.sp, x_blks, 1, <<>>), LAMBDA e :
                 [sp |-> e.sp,
                  item |-> <<[words |-> c.collocations, chn |-> c.chn_text,
                              examples |-> e.examples]>>]))))

(***************************************************************************)
(* parse_collocation_html                                                  *)
(***************************************************************************)
\* lines 339-342: the loop over the block's <sb-g> descendants
RECURSIVE ItemsLoop(_, _, _, _)
ItemsLoop(sp, sb_gs, i, collocation_items) ==
    IF i > Len(sb_gs) THEN [sp |-> sp, items |-> collocation_items]
    ELSE Bind(parse_sb_g(sp, sb_gs[i]), LAMBDA r :
         Bind(collocation_items \o r.item, LAMBDA collocation_items1 :
             ItemsLoop(r.sp, sb_gs, i + 1, collocation_items1)))

\* lines 331-333: the category title, whitespace-normalised
CategoryTitle(sp, blk, sl_type) ==
    Bind(Find(sp, blk, "sl-g-head"), LAMBDA head_elem :
        Strip(CollapseSpace(IF head_elem # <<>>
                            THEN GetTextRaw(sp, head_elem[1])
                            ELSE Upper(sl_type))))

\* the group put in front of those collected so far
AddGroupFirst(collocation_groups, category_title, collocation_items) ==
    IF collocation_items # <<>>
    THEN <<[category |-> category_title, items |-> collocation_items]>>
         \o collocation_groups
    ELSE collocation_groups

\* lines 344-348
AddGroup(collocation_groups, category_title, collocation_items) ==
    IF collocation_items # <<>>
    THEN Append(collocation_groups,
                [category |-> category_title, items |-> collocation_items])
    ELSE collocation_groups

\* lines 326-348: one block whose type code is kept
ParseBlk(sp, blk, collocation_groups) ==
    Bind(CategoryTitle(sp, blk, At(sp.root, blk).sl), LAMBDA category_title :
    Bind(FindAll(sp, blk, {"sb-g"}), LAMBDA sb_gs :
    Bind(ItemsLoop(sp, sb_gs, 1, <<>>), LAMBDA r :
        [sp |-> r.sp,
         groups |-> AddGroup(collocation_groups, category_title, r.items)])))

\* lines 325-348: the loop over the entry's <sl-g-blk> descendants
RECURSIVE BlkLoop(_, _, _, _)
BlkLoop(sp, sl_g_blks, i, collocation_groups) ==
    IF i > Len(sl_g_blks) THEN [sp |-> sp, groups |-> collocation_groups]
    ELSE IF At(sp.root, sl_g_blks[i]).sl \notin KEEP_SL_TYPES
         THEN BlkLoop(sp, sl_g_blks, i + 1, collocation_groups)
         ELSE Bind(ParseBlk(sp, sl_g_blks[i], collocation_groups), LAMBDA r :
                  BlkLoop(r.sp, sl_g_blks, i + 1, r.groups))

\* line 313: the secondary text of the definition, read before the stripping
DefCn(sp, def_elem) ==
    Bind(Find(sp, def_elem, "chn"),
         LAMBDA chn_elem :
             IF chn_elem # <<>> THEN GetText(sp, chn_elem[1]) ELSE <<>>)

\* lines 315-318
DefStrip(sp, def_elem) ==
    Bind(Decompose(sp, FindAll(sp, def_elem, {"chn"})), LAMBDA sp1 :
        Decompose(sp1, FindAll(sp1, def_elem, {"chnsep"})))

\* the definition stripped before its secondary text is read
ParseDefStripFirst(sp, def_elem) ==
    Bind(DefStrip(sp, def_elem), LAMBDA sp1 :
    Bind(DefCn(sp1, def_elem), LAMBDA def_cn :
        [sp |-> sp1, def_en |-> GetText(sp1, def_elem), def_cn |-> def_cn]))

\* lines 312-319: the definition node
ParseDef(sp, def_elem) ==
    Bind(DefCn(sp, def_elem), LAMBDA def_cn :
    Bind(DefStrip(sp, def_elem), LAMBDA sp1 :
        [sp |-> sp1, def_en |-> GetText(sp1, def_elem), def_cn |-> def_cn]))

\* str(None) where the node is missing
TextOrNone(sp, found) ==
    IF found # <<>> THEN GetText(sp, found[1]) ELSE <<"N", "o", "n", "e">>

\* node.get_text(strip=True) if node else ""
TextOrEmpty(sp, found) ==
    IF found # <<>> THEN GetText(sp, found[1]) ELSE <<>>

\* lines 303-319: the fields read below a <head>
ParseHeadFields(sp, head) ==
    Bind(TextOrEmpty(sp, Find(sp, head, "p")), LAMBDA pos :
    Bind(TextOrEmpty(sp, Find(sp, head, "n-num")), LAMBDA sense_num :
    Bind(Find(sp, head, "def"), LAMBDA def_elem :
        IF def_elem = <<>>
        THEN [sp |-> sp, pos |-> pos, sense_num |-> sense_num,
              def_en |-> <<>>, def_cn |-> <<>>]
        ELSE Bind(ParseDef(sp, def_elem[1]), LAMBDA d :
                 [sp |-> Logged(d.sp, "def", LiveTree(sp, def_elem[1]),
                                [def_en |-> d.def_en, def_cn |-> d.def_cn]),
                  pos |-> pos, sense_num |-> sense_num,
                  def_en |-> d.def_en, def_cn |-> d.def_cn]))))

\* lines 297-319: part of speech, sense number and definition
ParseHead(sp, entry) ==
    Bind(Find(sp, entry, "head"), LAMBDA head :
        IF head = <<>>
        THEN [sp |-> sp, pos |-> <<>>, sense_num |-> <<>>,
              def_en |-> <<>>, def_cn |-> <<>>]
        ELSE ParseHeadFields(sp, head[1]))

\* lines 293-294
Headword(sp, entry, w) ==
    Bind(Find(sp, entry, "h"),
         LAMBDA h_elem : IF h_elem # <<>> THEN GetText(sp, h_elem[1]) ELSE w)

\* the card appended without the test of line 351
AddCardUnchecked(cds, card) == Append(cds, card)

\* lines 350-361: an entry without a kept group is skipped
AddCard(cds, card) ==
    IF card.collocation_groups = <<>> THEN cds ELSE Append(cds, card)

\* lines 292-361: one entry
ParseEntry(sp, entry, w, cds) ==
    Bind(Headword(sp, entry, w), LAMBDA headword :
    Bind(ParseHead(sp, entry), LAMBDA h :
    Bind(FindAll(h.sp, entry, {"sl-g-blk"}), LAMBDA sl_g_blks :
    Bind(BlkLoop(h.sp, sl_g_blks, 1, <<>>), LAMBDA g :
        [sp |-> g.sp,
         cards |-> AddCard(cds, [word |-> headword, pos |-> h.pos,
                                 sense_num |-> h.sense_num,
                                 def_en |-> h.def_en, def_cn |-> h.def_cn,
                                 collocation_groups |-> g.groups])]))))

\* lines 291-361: the loop over the entries
RECURSIVE EntryLoop(_, _, _, _, _)
EntryLoop(sp, entries, i, w, cds) ==
    IF i > Len(entries) THEN [sp |-> sp, cards |-> cds]
    ELSE Bind(ParseEntry(sp, entries[i], w, cds), LAMBDA r :
             EntryLoop(r.sp, entries, i + 1, w, r.cards))

\* lines 256-363; html_content is the sequence of the document's top-level
\* nodes, empty for None and for the empty string
parse_collocation_html(doc, w) ==
    IF doc = <<>> THEN [sp |-> BeautifulSoup(<<>>), cards |-> <<>>]
    ELSE Bind(BeautifulSoup(doc), LAMBDA sp :
         Bind(FindAll(sp, <<>>, {"entry"}), LAMBDA entries :
             IF entries = <<>> THEN [sp |-> sp, cards |-> <<>>]
             ELSE EntryLoop(sp, entries, 1, w, <<>>)))

(***************************************************************************)
(* generate_collocations_html                                              *)
(***************************************************************************)
\* lines 420-422: the phrases as alternatives around a divider
RenderWords(words) ==
    Join(<<"SP", "<span class=\"sep\">|</span>", "SP">>,
         [i \in 1..Len(words) |->
             <<"<span class=\"colloc-word\">">> \o words[i] \o <<"</span>">>])

\* lines 428-432
RenderExample(ex) ==
    <<"<div class=\"colloc-example\">">>
    \o <<"<div class=\"ex-en\">", "STAR", "SP">> \o ex.en \o <<"</div>">>
    \o (IF ex.cn # <<>>
        THEN <<"<div class=\"ex-cn\">">> \o ex.cn \o <<"</div>">>
        ELSE <<>>)
    \o <<"</div>">>

\* the item with its examples rendered last to first
RenderItemReversed(item) ==
    <<"<div class=\"colloc-item\">">>
    \o <<"<div class=\"colloc-words\">">>
    \o RenderWords(item.words)
    \o (IF item.chn # <<>>
        THEN <<"<span class=\"colloc-chn\">">> \o item.chn \o <<"</span>">>
        ELSE <<>>)
    \o <<"</div>">>
    \o Concat([i \in 1..Len(item.examples) |->
                  RenderExample(item.examples[Len(item.examples) + 1 - i])])
    \o <<"</div>">>

\* lines 419-434
RenderItem(item) ==
    <<"<div class=\"colloc-item\">">>
    \o <<"<div class=\"colloc-words\">">>
    \o RenderWords(item.words)
    \o (IF item.chn # <<>>
        THEN <<"<span class=\"colloc-chn\">">> \o item.chn \o <<"</span>">>
        ELSE <<>>)
    \o <<"</div>">>
    \o Concat([i \in 1..Len(item.examples) |-> RenderExample(item.examples[i])])
    \o <<"</div>">>

\* lines 415-435
RenderGroup(group) ==
    <<"<div class=\"colloc-group\">">>
    \o <<"<div class=\"colloc-category\">">> \o group.category \o <<"</div>">>
    \o Concat([i \in 1..Len(group.items) |-> RenderItem(group.items[i])])
    \o <<"</div>">>

\* lines 411-437
generate_collocations_html(card) ==
    Concat([i \in 1..Len(card.collocation_groups) |->
               RenderGroup(card.collocation_groups[i])])

(***************************************************************************)
(* generate_anki_import_file                                               *)
(***************************************************************************)
\* the fragment with only the newlines removed
CollocFieldKeepCR(card) ==
    RemoveChar(generate_collocations_html(card), "LF")

\* line 446
CollocField(card) ==
    RemoveChar(RemoveChar(generate_collocations_html(card), "LF"), "CR")

\* line 447: str(card.get('freq_rank', ''))
FreqRankField(card) ==
    IF "freq_rank" \in DOMAIN card THEN card.freq_rank ELSE <<>>

\* lines 448-457
Fields(card) ==
    <<card.word, card.pos, card.sense_num, card.def_en, card.def_cn,
      CollocField(card), FreqRankField(card), card.word>>

\* line 458
Line(card) == Join(<<"TAB">>, Fields(card))

\* every record followed by a newline, the last one too
GenerateTrailingNewline(cds) ==
    Concat([i \in 1..Len(cds) |-> Line(cds[i]) \o <<"LF">>])

\* lines 440-459
generate_anki_import_file(cds) ==
    Join(<<"LF">>, [i \in 1..Len(cds) |-> Line(cds[i])])

(***************************************************************************)
(* main: the frequency rank attached to the cards of one queried word      *)
(***************************************************************************)
\* str.lower()
LowerChar(c) ==
    CASE c = "A" -> "a" [] c = "B" -> "b" [] c = "P" -> "p" [] OTHER -> c

Lower(s) == [i \in 1..Len(s) |-> LowerChar(s[i])]

\* str(n) for a line number
RECURSIVE Str(_)
Str(n) ==
    LET digit == <<"0", "1", "2", "3", "4", "5", "6", "7", "8", "9">>
    IN  IF n < 10 THEN <<digit[n + 1]>>
        ELSE Str(n \div 10) \o <<digit[(n % 10) + 1]>>

\* lines 797-799: rank = freq_map.get(word.lower(), ''); str(rank) on each card
AttachFreqRank(cds, w, fm) ==
    LET rank == IF Lower(w) \in DOMAIN fm THEN Str(fm[Lower(w)]) ELSE <<>>
    IN  [i \in 1..Len(cds) |->
            [word |-> cds[i].word, pos |-> cds[i].pos,
             sense_num |-> cds[i].sense_num, def_en |-> cds[i].def_en,
             def_cn |-> cds[i].def_cn,
             collocation_groups |-> cds[i].collocation_groups,
             freq_rank |-> rank]]

(***************************************************************************)
(* Input documents: the structure the docstring of parse_collocation_html  *)
(* describes, with the variations html.parser accepts (missing nodes,      *)
(* empty spans, several spans, nested blocks, whitespace inside the text)  *)
(***************************************************************************)
MaxCls == 2
MaxXBlks == 2
MaxBlks == 2
MaxEntries == 2

SeqsUpTo(S, n) == UNION {[1..k -> S] : k \in 0..n}

Chn(s) == Elem("chn", <<Text(s)>>)
ChnSep == Elem("chnsep", <<Text(<<"/">>)>>)
FthzMark == Elem("fthzmark", <<Text(<<"m">>)>>)

\* <cl> phrase nodes
ClSet ==
    { Elem("cl", <<Text(<<"a", "SP", "b">>)>>),
      Elem("cl", <<Text(<<"a", "SP">>), Chn(<<"zh">>)>>),
      Elem("cl", <<Chn(<<"zh">>)>>),
      Elem("cl", <<Text(<<"LF", "SP">>)>>),
      Elem("cl", <<Text(<<"c", "TAB", "LF", "CR", "d">>), ChnSep,
                   Chn(<<"SP", "yi", "SP">>)>>),
      Elem("cl", <<Text(<<"b">>), Elem("chn", <<>>)>>) }

\* <x-blk> example blocks
XBlkSet ==
    { Elem("x-blk", <<>>),
      Elem("x-blk", <<Elem("x", <<Text(<<"a", "SP", "b", ".">>)>>)>>),
      Elem("x-blk", <<Elem("x", <<Text(<<"a", ".", "SP">>), Chn(<<"zh">>)>>)>>),
      Elem("x-blk", <<Elem("x", <<Chn(<<"zh">>)>>)>>),
      Elem("x-blk", <<Elem("x", <<Text(<<"c", "LF", "d", "CR", "e">>), FthzMark,
                                  ChnSep, Chn(<<"SP", "yi", "LF">>)>>)>>),
      Elem("x-blk", <<Elem("x", <<Chn(<<"zh">>), Text(<<"a">>),
                                  Chn(<<"yi">>)>>)>>),
      Elem("x-blk", <<Elem("x", <<Text(<<"a">>), Elem("chn", <<>>)>>)>>) }

SbG(cls, x_blks) == Elem("sb-g", cls \o x_blks)

GoodSbG ==
    SbG(<<Elem("cl", <<Text(<<"a", "SP">>), Chn(<<"zh">>)>>)>>,
        <<Elem("x-blk", <<Elem("x", <<Text(<<"b", ".">>), ChnSep,
                                     Chn(<<"yi">>)>>)>>)>>)

RichSbG ==
    SbG(<<Elem("cl", <<Text(<<"c">>)>>),
          Elem("cl", <<Text(<<"d", "SP", "e">>), Chn(<<"yi">>)>>)>>,
        <<Elem("x-blk", <<Elem("x", <<Text(<<"c", ".">>)>>)>>),
          Elem("x-blk", <<Elem("x", <<Text(<<"d", ".">>), Chn(<<"zh">>)>>)>>)>>)

EmptySbG == SbG(<<Elem("cl", <<Chn(<<"zh">>)>>)>>, <<>>)

SlHead(s) == Elem("sl-g-head", <<Text(s)>>)

\* <sl-g-blk> category blocks: kept, kept without a usable sub-group,
\* not kept, without a type code, and nested
BlkSet ==
    { Blk("prep", <<SlHead(<<"P">>), Elem("sl-g", <<GoodSbG>>)>>),
      Blk("verbandhwd", <<SlHead(<<"LF", "V", "SP", "SP", "+", "LF", "P", "SP">>),
                          Elem("sl-g", <<RichSbG, EmptySbG>>)>>),
      Blk("prep", <<Elem("sl-g", <<EmptySbG>>)>>),
      Blk("idioms", <<SlHead(<<"I">>), Elem("sl-g", <<GoodSbG>>)>>),
      Blk("", <<Elem("sl-g", <<GoodSbG>>)>>),
      Blk("hwdandverb", <<Elem("sl-g", <<GoodSbG>>),
                          Blk("verbs", <<Elem("sl-g", <<GoodSbG>>)>>)>>),
      Blk("idioms", <<Blk("prep", <<Elem("sl-g", <<GoodSbG>>)>>)>>) }

\* <def> definition nodes
DefSet ==
    { Elem("def", <<Text(<<"a", "SP", "b">>)>>),
      Elem("def", <<Text(<<"a", "SP">>), Chn(<<"zh">>)>>),
      Elem("def", <<Text(<<"a">>), ChnSep, Chn(<<"SP", "zh">>)>>),
      Elem("def", <<Chn(<<"zh">>)>>),
      Elem("def", <<Text(<<"a", "LF", "b">>), Chn(<<"zh", "LF", "yi">>)>>),
      Elem("def", <<Text(<<"a", "TAB", "b">>)>>),
      Elem("def", <<Text(<<"a">>), Chn(<<"zh">>), Text(<<"b">>), Chn(<<"yi">>)>>),
      Elem("def", <<Text(<<"a">>), Elem("chn", <<>>)>>),
      Elem("def", <<>>) }

PBlk == Elem("p-blk", <<Elem("p", <<Text(<<"n">>)>>)>>)
NNum(s) == Elem("n-num", <<Text(s)>>)

\* <head> nodes: the definition varies; part of speech, sense number or
\* definition missing
HeadSet ==
    { Elem("head", <<PBlk, NNum(<<"1">>), d>>) : d \in DefSet }
    \cup { Elem("head", <<>>),
           Elem("head", <<PBlk>>),
           Elem("head", <<NNum(<<"1">>)>>),
           Elem("head", <<PBlk, NNum(<<"1">>)>>) }

\* <h> nodes
HSet == { Elem("h", <<Text(<<"h", "w">>)>>), Elem("h", <<>>),
          Elem("h", <<Text(<<"h", "TAB", "w">>)>>) }

PlainHead ==
    Elem("head", <<PBlk, NNum(<<"1">>),
                   Elem("def", <<Text(<<"a">>), Chn(<<"zh">>)>>)>>)

PlainH == Elem("h", <<Text(<<"h", "w">>)>>)

KeptBlk(sb_gs) == Blk("prep", <<SlHead(<<"P">>), Elem("sl-g", sb_gs)>>)

Entry(kids) == Elem("entry", kids)

\* one entry, one kept block, one sub-group: the phrase nodes vary
ClDocs ==
    { <<Entry(<<PlainH, PlainHead, KeptBlk(<<SbG(cls, <<>>)>>)>>)>> :
        cls \in SeqsUpTo(ClSet, MaxCls) }

\* one entry, one kept block, one sub-group: the example blocks vary
XDocs ==
    { <<Entry(<<PlainH, PlainHead,
                KeptBlk(<<SbG(<<Elem("cl", <<Text(<<"a">>)>>)>>, xs)>>)>>)>> :
        xs \in SeqsUpTo(XBlkSet, MaxXBlks) }

\* one entry: the category blocks vary
BlkDocs ==
    { <<Entry(<<PlainH, PlainHead>> \o blks)>> :
        blks \in SeqsUpTo(BlkSet, MaxBlks) }

\* one entry, one kept block: the headword node varies, or the head
HeadDocs ==
    { <<Entry(<<h, PlainHead, KeptBlk(<<GoodSbG>>)>>)>> : h \in HSet }
    \cup { <<Entry(<<PlainH, hd, KeptBlk(<<GoodSbG>>)>>)>> : hd \in HeadSet }
    \cup { <<Entry(<<PlainHead, KeptBlk(<<GoodSbG>>)>>)>>,
           <<Entry(<<PlainH, KeptBlk(<<GoodSbG>>)>>)>> }

EntrySet ==
    { Entry(<<PlainH, PlainHead, KeptBlk(<<GoodSbG>>)>>),
      Entry(<<PlainH,
              Elem("head", <<NNum(<<"2">>), Elem("def", <<Text(<<"b">>)>>)>>),
              Blk("verbs", <<Elem("sl-g", <<RichSbG, GoodSbG>>)>>)>>),
      Entry(<<PlainH, PlainHead,
              Blk("idioms", <<Elem("sl-g", <<GoodSbG>>)>>)>>),
      Entry(<<KeptBlk(<<GoodSbG>>)>>),
      Entry(<<PlainH, PlainHead, KeptBlk(<<EmptySbG>>)>>) }

\* several entries; text only; an entry below another element
EntryDocs ==
    SeqsUpTo(EntrySet, MaxEntries)
    \cup { <<Text(<<"a">>)>>,
           <<Elem("div", <<Entry(<<PlainH, KeptBlk(<<GoodSbG>>)>>)>>)>> }

\* queried words: lowercase, as the word sources deliver them
Words == {<<"h", "w">>, <<"p", "q">>}

\* the (document, queried word) pairs parsed
Inputs ==
    ((ClDocs \cup XDocs \cup BlkDocs) \X {<<"h", "w">>})
    \cup ((HeadDocs \cup EntryDocs) \X Words)

\* the frequency table of a file whose 12th line holds "hw"
FreqMap == [w \in {<<"h", "w">>} |-> 12]

\* main's inputs: the word list, the frequency file, the dictionary
MaxWords == 3

BatchWords == {<<"h", "w">>, <<"p", "q">>, <<"a", "b">>}

\* word lists as the word sources deliver them: {'word': w} items, lowercase,
\* possibly with repetitions
WordLists ==
    { [i \in 1..Len(ws) |-> [word |-> ws[i]]] :
        ws \in SeqsUpTo(BatchWords, MaxWords) }

NoFile == [exists |-> FALSE, lines |-> <<>>]
File(lines) == [exists |-> TRUE, lines |-> lines]

\* frequency files: missing; without a line; forms sharing a line and a form
\* repeated on a later line; a blank line, capitals, a tab
FreqFiles ==
    { NoFile,
      File(<<>>),
      File(<< <<"h", "w", "SP", "A", "b", "LF">>,
              <<"p", "q", "SP", "h", "w">> >>),
      File(<< <<"SP", "LF">>,
              <<"P", "q", "TAB", "a", "b", "SP", "p", "q", "LF">>,
              <<"a", "b", "LF">> >>) }

\* a dictionary article for w with one entry per sense number
SenseDoc(w, nums) ==
    [i \in 1..Len(nums) |->
        Entry(<<Elem("h", <<Text(w)>>),
                Elem("head", <<PBlk, NNum(nums[i])>>),
                KeptBlk(<<GoodSbG>>)>>)]

\* an article without a kept block
IdiomsDoc(w) ==
    <<Entry(<<Elem("h", <<Text(w)>>), PlainHead,
              Blk("idioms", <<Elem("sl-g", <<GoodSbG>>)>>)>>)>>

\* dictionaries: what the lookup returns for each word, <<>> for None
MdxSet ==
    { [w \in BatchWords |->
          CASE w = <<"h", "w">> -> SenseDoc(w, << <<"1">> >>)
            [] w = <<"p", "q">> -> <<>>
            [] OTHER -> IdiomsDoc(w)],
      [w \in BatchWords |->
          CASE w = <<"h", "w">> -> SenseDoc(w, << <<"1">>, <<"2">> >>)
            [] w = <<"p", "q">> -> SenseDoc(w, << <<"1">> >>)
            [] OTHER -> <<>>],
      [w \in BatchWords |-> IF w = <<"a", "b">> THEN IdiomsDoc(w) ELSE <<>>] }

(***************************************************************************)
(* load_freq_dict and the duplicate removal of main                        *)
(***************************************************************************)
\* str.split(): the maximal runs of characters that are not whitespace
SplitWs(s) ==
    Bind(s, LAMBDA v :
        Bind(SelectSeq([i \in 1..Len(v) |-> i],
                       LAMBDA i : v[i] \notin Whitespace
                                    /\ (i = 1 \/ v[i - 1] \in Whitespace)),
             LAMBDA starts :
                [n \in 1..Len(starts) |->
                    SubSeq(v, starts[n],
                           CHOOSE j \in starts[n]..Len(v) :
                              /\ \A k \in starts[n]..j : v[k] \notin Whitespace
                              /\ j = Len(v) \/ v[j + 1] \in Whitespace)]))

EmptyMap == [w \in {} |-> 0]

\* every form put over the one the table already holds
AddFormLastWins(fm, w, line_num) ==
    [x \in DOMAIN fm \cup {Lower(w)} |->
        IF x = Lower(w) THEN line_num ELSE fm[x]]

\* lines 74-76: word = word.lower(); kept only when not yet in the table
AddForm(fm, w, line_num) ==
    IF Lower(w) \in DOMAIN fm THEN fm
    ELSE [x \in DOMAIN fm \cup {Lower(w)} |->
             IF x = Lower(w) THEN line_num ELSE fm[x]]

\* lines 72-76: the forms of one line
RECURSIVE AddLine(_, _, _, _)
AddLine(fm, words, k, line_num) ==
    IF k > Len(words) THEN fm
    ELSE AddLine(AddForm(fm, words[k], line_num), words, k + 1, line_num)

\* lines 71-76: the lines, numbered from 1
RECURSIVE AddLines(_, _, _)
AddLines(fm, lines, line_num) ==
    IF line_num > Len(lines) THEN fm
    ELSE AddLines(AddLine(fm, SplitWs(Strip(lines[line_num])), 1, line_num),
                  lines, line_num + 1)

\* lines 66-80.  A missing file gives the empty table (FileNotFoundError is
\* caught).  A file without any line leaves line_num unbound, and the print
\* of line 77 raises UnboundLocalError, which is not caught: ok is FALSE.
load_freq_dict(dict_file) ==
    IF ~dict_file.exists THEN [ok |-> TRUE, freq_map |-> EmptyMap]
    ELSE IF dict_file.lines = <<>> THEN [ok |-> FALSE, freq_map |-> EmptyMap]
    ELSE [ok |-> TRUE, freq_map |-> AddLines(EmptyMap, dict_file.lines, 1)]

\* only a word equal to the one just before it is left out
UniqueWordsAdjacent(wl) ==
    Bind(SelectSeq([i \in 1..Len(wl) |-> i],
                   LAMBDA i : i = 1 \/ wl[i - 1] # wl[i]),
         LAMBDA keep : [k \in 1..Len(keep) |-> wl[keep[k]]])

\* main, lines 759-766: a word is kept the first time it is seen
RECURSIVE UniqueLoop(_, _, _, _)
UniqueLoop(wl, k, seen, unique_words) ==
    IF k > Len(wl) THEN unique_words
    ELSE IF wl[k].word \notin seen
         THEN UniqueLoop(wl, k + 1, seen \cup {wl[k].word},
                         Append(unique_words, wl[k]))
         ELSE UniqueLoop(wl, k + 1, seen, unique_words)

UniqueWords(wl) == UniqueLoop(wl, 1, {}, <<>>)

(***************************************************************************)
(* The state machine                                                       *)
(***************************************************************************)
NoSoup == [root |-> Elem("[document]", <<>>), gone |-> {}, log |-> <<>>]

\* main is not running
MainIdle ==
    /\ freq_file = NoFile
    /\ word_list0 = <<>>
    /\ word_list = <<>>
    /\ mdx = EmptyMap
    /\ idx = 0
    /\ all_cards = <<>>
    /\ failed_words = <<>>
    /\ success_count = 0
    /\ mpc = "idle"
    /\ origin = <<>>
    /\ queried = <<>>
    /\ parsed = <<>>

Init ==
    /\ \E in \in Inputs : html_content = in[1] /\ word = in[2]
    /\ freq_map = FreqMap
    /\ soup = NoSoup
    /\ cards = <<>>
    /\ import_content = <<>>
    /\ pc = "start"
    /\ MainIdle

\* cards = parse_collocation_html(html, word)
Parse ==
    /\ pc = "start"
    /\ LET r == parse_collocation_html(html_content, word)
       IN  /\ soup' = r.sp
           /\ cards' = r.cards
    /\ pc' = "parsed"
    /\ UNCHANGED <<html_content, word, freq_map, import_content>>
    /\ UNCHANGED mainvars

\* main, lines 795-799: the rank attached to the cards of the word
AttachRank ==
    /\ pc = "parsed"
    /\ cards # <<>>
    /\ cards' = AttachFreqRank(cards, word, freq_map)
    /\ pc' = "ranked"
    /\ UNCHANGED <<html_content, word, freq_map, soup, import_content>>
    /\ UNCHANGED mainvars

\* main, lines 817-823: import_content = generate_anki_import_file(all_cards),
\* reached only with at least one card
Generate ==
    /\ pc \in {"parsed", "ranked"}
    /\ cards # <<>>
    /\ import_content' = generate_anki_import_file(cards)
    /\ pc' = "generated"
    /\ UNCHANGED <<html_content, word, freq_map, soup, cards>>
    /\ UNCHANGED mainvars

Next == Parse \/ AttachRank \/ Generate

Spec == Init /\ [][Next]_vars

(***************************************************************************)
(* main: the batch                                                         *)
(***************************************************************************)
MainInit ==
    /\ freq_file \in FreqFiles
    /\ word_list0 \in WordLists
    /\ word_list = word_list0
    /\ mdx \in MdxSet
    /\ idx = 0
    /\ all_cards = <<>>
    /\ failed_words = <<>>
    /\ success_count = 0
    /\ mpc = "init"
    /\ origin = <<>>
    /\ queried = <<>>
    /\ parsed = <<>>
    /\ html_content = <<>>
    /\ word = <<>>
    /\ freq_map = EmptyMap
    /\ soup = NoSoup
    /\ cards = <<>>
    /\ import_content = <<>>
    /\ pc = "start"

\* lines 728-729: freq_map = load_freq_dict(freq_file)
LoadFreq ==
    /\ mpc = "init"
    /\ LET r == load_freq_dict(freq_file)
       IN  /\ freq_map' = r.freq_map
           /\ mpc' = IF r.ok THEN "loaded" ELSE "error"
    /\ UNCHANGED <<html_content, word, soup, cards, import_content, pc,
                   freq_file, word_list0, word_list, mdx, idx, all_cards,
                   failed_words, success_count, origin, queried, parsed>>

\* lines 751-753: no word, main returns
NoWords ==
    /\ mpc = "loaded"
    /\ word_list = <<>>
    /\ mpc' = "nowords"
    /\ UNCHANGED <<html_content, word, freq_map, soup, cards, import_content,
                   pc, freq_file, word_list0, word_list, mdx, idx, all_cards,
                   failed_words, success_count, origin, queried, parsed>>

\* lines 759-777: the duplicates removed, the accumulators set up
Dedupe ==
    /\ mpc = "loaded"
    /\ word_list # <<>>
    /\ word_list' = UniqueWords(word_list)
    /\ all_cards' = <<>>
    /\ failed_words' = <<>>
    /\ success_count' = 0
    /\ idx' = 1
    /\ mpc' = "loop"
    /\ UNCHANGED <<html_content, word, freq_map, soup, cards, import_content,
                   pc, freq_file, word_list0, mdx, origin, queried, parsed>>

\* lines 779-791: the next word is looked up
Query ==
    /\ mpc = "loop"
    /\ idx <= Len(word_list)
    /\ word' = word_list[idx].word
    /\ html_content' = mdx[word_list[idx].word]
    /\ queried' = Append(queried, word_list[idx].word)
    /\ mpc' = "queried"
    /\ UNCHANGED <<freq_map, soup, cards, import_content, pc, freq_file,
                   word_list0, word_list, mdx, idx, all_cards, failed_words,
                   success_count, origin, parsed>>

\* lines 793-813: the article parsed, the cards ranked and collected, the
\* word counted as a success or as a failure
Process ==
    /\ mpc = "queried"
    /\ IF html_content # <<>>
       THEN LET r == parse_collocation_html(html_content, word)
                ranked == AttachFreqRank(r.cards, word, freq_map)
            IN  /\ soup' = r.sp
                /\ parsed' = Append(parsed, word)
                /\ IF r.cards # <<>>
                   THEN /\ cards' = ranked
                        /\ all_cards' = all_cards \o ranked
                        /\ origin' = origin \o [k \in 1..Len(ranked) |-> word]
                        /\ success_count' = success_count + 1
                        /\ UNCHANGED failed_words
                   ELSE /\ cards' = r.cards
                        /\ failed_words' = Append(failed_words, word)
                        /\ UNCHANGED <<all_cards, origin, success_count>>
       ELSE /\ failed_words' = Append(failed_words, word)
            /\ UNCHANGED <<soup, parsed, cards, all_cards, origin,
                           success_count>>
    /\ idx' = idx + 1
    /\ mpc' = "loop"
    /\ UNCHANGED <<html_content, word, freq_map, import_content, pc,
                   freq_file, word_list0, word_list, mdx, queried>>

\* lines 817-823: after the loop, nothing to write or the import text
Finish ==
    /\ mpc = "loop"
    /\ idx > Len(word_list)
    /\ IF all_cards = <<>>
       THEN mpc' = "nocards" /\ UNCHANGED import_content
       ELSE /\ import_content' = generate_anki_import_file(all_cards)
            /\ mpc' = "done"
    /\ UNCHANGED <<html_content, word, freq_map, soup, cards, pc, freq_file,
                   word_list0, word_list, mdx, idx, all_cards, failed_words,
                   success_count, origin, queried, parsed>>

MainNext == LoadFreq \/ NoWords \/ Dedupe \/ Query \/ Process \/ Finish

MainSpec == MainInit /\ [][MainNext]_vars

(***************************************************************************)
(* Reference reading of a document: pure functions of the input tree,      *)
(* which never change it                                                   *)
(***************************************************************************)
AllowList == {"verbs", "verbandhwd", "hwdandverb", "prep"}
CJK == {"zh", "yi"}

All(s, P(_)) == Bind(s, LAMBDA v : \A i \in 1..Len(v) : P(v[i]))
Some(s, P(_)) == Bind(s, LAMBDA v : \E i \in 1..Len(v) : P(v[i]))
MapSeq(s, F(_)) == Bind(s, LAMBDA v : [i \in 1..Len(v) |-> F(v[i])])
NonEmpty(s) == SelectSeq(s, LAMBDA x : x # <<>>)
Range(s) == {s[i] : i \in 1..Len(s)}

\* every node below n, in document order
RECURSIVE NodesBelow(_)
NodesBelow(n) ==
    Bind(n, LAMBDA m :
        Concat([i \in 1..Len(m.kids) |->
                   <<m.kids[i]>> \o NodesBelow(m.kids[i])]))

NodesTagged(n, tag) == SelectSeq(NodesBelow(n), LAMBDA m : m.tag = tag)

\* the text of n, each string stripped, leaving out the spans of these tags
RECURSIVE TextExcluding(_, _)
TextExcluding(n, tags) ==
    Bind(n, LAMBDA m :
        IF m.tag = "#text" THEN Strip(m.text)
        ELSE IF m.tag \in tags THEN <<>>
        ELSE Concat([i \in 1..Len(m.kids) |-> TextExcluding(m.kids[i], tags)]))

\* the text of the first span of this tag below n, empty when there is none
FirstSpanText(n, tag) ==
    Bind(NodesTagged(n, tag),
         LAMBDA spans : IF spans = <<>> THEN <<>>
                        ELSE TextExcluding(spans[1], {}))

\* the phrases of a sub-group: its direct <cl> children that have text
RefWords(sb_g) ==
    NonEmpty(MapSeq(SelectSeq(sb_g.kids, LAMBDA m : m.tag = "cl"),
                    LAMBDA cl : TextExcluding(cl, {"chn", "chnsep"})))

\* the items of a block: its sub-groups that have a phrase
RefItems(blk) == NonEmpty(MapSeq(NodesTagged(blk, "sb-g"), RefWords))

\* the blocks below n whose type code is allow-listed
KeptBlocks(n) ==
    SelectSeq(NodesTagged(n, "sl-g-blk"), LAMBDA b : b.sl \in AllowList)

\* the groups of an entry: its allow-listed blocks that have an item
RefGroups(entry) == NonEmpty(MapSeq(KeptBlocks(entry), RefItems))

\* the senses of a document: its entries that have a group
RefCards(doc) ==
    NonEmpty(MapSeq(NodesTagged(Elem("[document]", doc), "entry"), RefGroups))

\* the phrases of a card, group by group and item by item
CardWords(card) ==
    MapSeq(card.collocation_groups,
           LAMBDA g : MapSeq(g.items, LAMBDA it : it.words))

DocRoot == Elem("[document]", html_content)

LogOf(kind) == SelectSeq(soup.log, LAMBDA e : e.kind = kind)

(***************************************************************************)
(* The claims                                                              *)
(***************************************************************************)
\* C1: every Sense returned by parse_collocation_html has a non-empty groups
\* sequence, and the Senses returned are exactly one per entry that has a
\* kept block with a valid item: an entry whose kept blocks all yield no
\* valid item, or that has no kept block, contributes no Sense.
SenseHasGroups ==
    pc # "start" =>
        /\ \A i \in 1..Len(cards) : cards[i].collocation_groups # <<>>
        /\ Len(cards) = Len(RefCards(html_content))

\* a parsed document with an entry that has a kept block, and no Sense
SenseHasGroupsWitness ==
    /\ pc = "parsed"
    /\ cards = <<>>
    /\ KeptBlocks(DocRoot) # <<>>

\* C2: the groups of every returned Sense are one per allow-listed block of
\* its entry that has an item, none comes from a block with another type
\* code or with none, and a document whose blocks all have other type codes
\* yields no Sense although those blocks hold well-formed phrases.
GroupsFromKeptBlocks ==
    pc # "start" =>
        /\ Bind(RefCards(html_content), LAMBDA ref :
              /\ Len(cards) = Len(ref)
              /\ \A i \in 1..Len(cards) :
                    Len(cards[i].collocation_groups) = Len(ref[i]))
        /\ \A i \in 1..Len(cards) :
              \A g \in 1..Len(cards[i].collocation_groups) :
                 cards[i].collocation_groups[g].category # <<"I">>
                    /\ cards[i].collocation_groups[g].category # <<>>
        /\ KeptBlocks(DocRoot) = <<>> => cards = <<>>

\* a parsed document whose only blocks are not allow-listed and hold a
\* phrase, and no Sense
GroupsFromKeptBlocksWitness ==
    /\ pc = "parsed"
    /\ cards = <<>>
    /\ NodesTagged(DocRoot, "sl-g-blk") # <<>>
    /\ All(NodesTagged(DocRoot, "sl-g-blk"),
           LAMBDA b : b.sl \notin AllowList
                        /\ Some(NodesTagged(b, "sb-g"),
                                LAMBDA g : RefWords(g) # <<>>))

\* C3: in every returned Sense every group has an item, every item a word
\* and every word is a non-empty string; the words are those of the phrase
\* nodes that keep text once the secondary-language and separator spans are
\* stripped, so a sub-group without such a phrase node gives no item and a
\* kept block without such a sub-group gives no group.
ItemsHaveWords ==
    pc # "start" =>
        /\ \A i \in 1..Len(cards) :
              \A g \in 1..Len(cards[i].collocation_groups) :
                 LET items == cards[i].collocation_groups[g].items
                 IN  /\ items # <<>>
                     /\ \A k \in 1..Len(items) :
                           /\ items[k].words # <<>>
                           /\ \A w \in 1..Len(items[k].words) :
                                 items[k].words[w] # <<>>
        /\ MapSeq(cards, CardWords) = RefCards(html_content)

\* a parsed document with a Sense, a kept block that gave no group and a
\* kept block with a sub-group that gave no item
ItemsHaveWordsWitness ==
    /\ pc = "parsed"
    /\ cards # <<>>
    /\ Some(KeptBlocks(DocRoot),
            LAMBDA b : RefItems(b) = <<>> /\ NodesTagged(b, "sb-g") # <<>>)
    /\ Some(KeptBlocks(DocRoot),
            LAMBDA b : RefItems(b) # <<>>
                         /\ Len(RefItems(b)) < Len(NodesTagged(b, "sb-g")))

\* the examples of the cards, in order
AllExamples(cds) ==
    Concat(MapSeq(cds, LAMBDA c :
        Concat(MapSeq(c.collocation_groups, LAMBDA g :
            Concat(MapSeq(g.items, LAMBDA it : it.examples))))))

\* C7, read on each extraction: for every example node the parser extracts,
\* the secondary text is the text of the node's (first) secondary-language
\* span as the node stood when the extraction began, before the
\* stripping and the English text is the node's text without the
\* secondary-language, separator and phonetic-mark spans; both are non-empty
\* when the node holds English text and a span with text; an example whose
\* English text is empty is dropped whatever its secondary text.  The
\* examples of the returned Senses are those extracted, in order.
ExampleCaptureBeforeStrip ==
    pc = "parsed" =>
        /\ All(LogOf("x"), LAMBDA e :
              Bind(TextExcluding(e.pre, {"chn", "chnsep", "fthzmark"}),
                   LAMBDA en :
                      /\ en = <<>> => e.result = <<>>
                      /\ en # <<>> =>
                            e.result = <<[en |-> en,
                                          cn |-> FirstSpanText(e.pre, "chn")]>>))
        /\ AllExamples(cards) = Concat(MapSeq(LogOf("x"), LAMBDA e : e.result))

\* a parsed document with an example kept with both texts and an example
\* dropped although it has secondary text
ExampleCaptureBeforeStripWitness ==
    /\ pc = "parsed"
    /\ Some(AllExamples(cards), LAMBDA ex : ex.en # <<>> /\ ex.cn # <<>>)
    /\ Some(LogOf("x"),
            LAMBDA e : e.result = <<>> /\ FirstSpanText(e.pre, "chn") # <<>>)

\* C8: for every definition node the parser reads, definitionCn is the text
\* of the (first) secondary-language span inside the definition, empty when
\* there is none, and definitionEn is the definition text without the
\* secondary-language and separator spans, so it holds no character of a
\* secondary-language span; the definition fields of every returned Sense
\* are those read from a definition node of the document, or empty.
DefCaptureBeforeStrip ==
    pc = "parsed" =>
        Bind(LogOf("def"), LAMBDA defs :
            /\ \A k \in 1..Len(defs) :
                  /\ defs[k].result.def_cn = FirstSpanText(defs[k].pre, "chn")
                  /\ defs[k].result.def_en
                        = TextExcluding(defs[k].pre, {"chn", "chnsep"})
                  /\ \A j \in 1..Len(defs[k].result.def_en) :
                        defs[k].result.def_en[j] \notin CJK
            /\ \A i \in 1..Len(cards) :
                  \/ cards[i].def_en = <<>> /\ cards[i].def_cn = <<>>
                  \/ \E k \in 1..Len(defs) :
                        defs[k].result = [def_en |-> cards[i].def_en,
                                          def_cn |-> cards[i].def_cn]
            /\ (Len(NodesTagged(DocRoot, "entry")) = 1 /\ cards # <<>>
                  /\ defs # <<>>)
               => defs[1].result = [def_en |-> cards[1].def_en,
                                    def_cn |-> cards[1].def_cn])

\* a parsed document whose Sense has both an English and a secondary
\* definition text, read from a definition node with a span
DefCaptureBeforeStripWitness ==
    /\ pc = "parsed"
    /\ cards # <<>>
    /\ cards[1].def_en # <<>>
    /\ cards[1].def_cn # <<>>
    /\ Some(LogOf("def"), LAMBDA e : NodesTagged(e.pre, "chn") # <<>>)

(***************************************************************************)
(* Reading the emitted text back                                           *)
(***************************************************************************)
\* str.split(sep) for a one-character separator
Split(s, sep) ==
    Bind(s, LAMBDA v :
        Bind(<<0>> \o SelectSeq([i \in 1..Len(v) |-> i], LAMBDA i : v[i] = sep)
                   \o <<Len(v) + 1>>,
             LAMBDA b : [k \in 1..(Len(b) - 1) |->
                            SubSeq(v, b[k] + 1, b[k + 1] - 1)]))

\* str.count(c)
Count(s, c) == Len(SelectSeq(s, LAMBDA x : x = c))

RECURSIVE SumSeq(_)
SumSeq(s) == IF s = <<>> THEN 0 ELSE Head(s) + SumSeq(Tail(s))

\* the fields of a card other than the fragment, as they are written
PlainFields(card) ==
    <<card.word, card.pos, card.sense_num, card.def_en, card.def_cn,
      IF "freq_rank" \in DOMAIN card THEN card.freq_rank ELSE <<>>,
      card.word>>

\* how often c occurs in the fields other than the fragment
CountInPlainFields(cds, c) ==
    SumSeq(MapSeq(cds, LAMBDA cd :
        SumSeq(MapSeq(PlainFields(cd), LAMBDA f : Count(f, c)))))

\* no field other than the fragment holds a tab or a newline
SeparatorFree(cds) ==
    CountInPlainFields(cds, "LF") = 0 /\ CountInPlainFields(cds, "TAB") = 0

\* the literal markup of the fragment
Openers ==
    [group    |-> "<div class=\"colloc-group\">",
     category |-> "<div class=\"colloc-category\">",
     item     |-> "<div class=\"colloc-item\">",
     word     |-> "<span class=\"colloc-word\">",
     chn      |-> "<span class=\"colloc-chn\">",
     example  |-> "<div class=\"colloc-example\">",
     en       |-> "<div class=\"ex-en\">",
     cn       |-> "<div class=\"ex-cn\">"]

Markup ==
    {Openers[k] : k \in DOMAIN Openers}
    \cup {"<div class=\"colloc-words\">", "<span class=\"sep\">|</span>",
          "</div>", "</span>"}

\* the tokens after position i up to the next markup token
TextAfter(toks, i) ==
    LET j == CHOOSE j \in (i + 1)..(Len(toks) + 1) :
                /\ j = Len(toks) + 1 \/ toks[j] \in Markup
                /\ \A k \in (i + 1)..(j - 1) : toks[k] \notin Markup
    IN  SubSeq(toks, i + 1, j - 1)

\* the fragment read back: for every opening token, in order of appearance,
\* its kind and the text that follows it
Unrender(fragment) ==
    Bind(fragment, LAMBDA toks :
        MapSeq(SelectSeq([i \in 1..Len(toks) |-> i],
                         LAMBDA i : \E k \in DOMAIN Openers : toks[i] = Openers[k]),
               LAMBDA i :
                  [kind |-> CHOOSE k \in DOMAIN Openers : toks[i] = Openers[k],
                   text |-> TextAfter(toks, i)]))

Piece(kind, text) == <<[kind |-> kind, text |-> text]>>

\* what the fragment of a card has to hold, in order
FlattenExample(ex) ==
    Piece("example", <<>>) \o Piece("en", <<"STAR", "SP">> \o ex.en)
    \o (IF ex.cn # <<>> THEN Piece("cn", ex.cn) ELSE <<>>)

FlattenItem(item) ==
    Piece("item", <<>>)
    \o Concat(MapSeq(item.words, LAMBDA w : Piece("word", w)))
    \o (IF item.chn # <<>> THEN Piece("chn", item.chn) ELSE <<>>)
    \o Concat(MapSeq(item.examples, FlattenExample))

FlattenGroup(group) ==
    Piece("group", <<>>) \o Piece("category", group.category)
    \o Concat(MapSeq(group.items, FlattenItem))

Flatten(card) == Concat(MapSeq(card.collocation_groups, FlattenGroup))

\* C4: the text generate_anki_import_file returns for the cards splits on
\* newline into exactly one line per card, and each line splits on tab into
\* exactly the 8 fields word, part of speech, sense number, English
\* definition, Chinese definition, fragment, frequency rank, tag, for any
\* field text the extractor produces.
RoundTrip ==
    pc = "generated" =>
        Bind(Split(import_content, "LF"), LAMBDA lines :
            /\ Len(lines) = Len(cards)
            /\ \A i \in 1..Len(lines) :
                  Bind(Split(lines[i], "TAB"), LAMBDA f :
                      /\ Len(f) = 8
                      /\ SubSeq(f, 1, 5) = SubSeq(PlainFields(cards[i]), 1, 5)
                      /\ f[6] = CollocField(cards[i])
                      /\ SubSeq(f, 7, 8) = SubSeq(PlainFields(cards[i]), 6, 7)))

\* C5: whatever newlines and carriage returns the phrases, glosses and
\* examples of the cards hold, the fragment fields add none to the emitted
\* text: its newlines are the record separators and those of the other
\* seven fields, its carriage returns those of the other seven fields.
FragmentLineAtomic ==
    pc = "generated" =>
        /\ Count(import_content, "LF")
              = (Len(cards) - 1) + CountInPlainFields(cards, "LF")
        /\ Count(import_content, "CR") = CountInPlainFields(cards, "CR")
        /\ SeparatorFree(cards) =>
              All(Split(import_content, "LF"), LAMBDA line :
                  Bind(Split(line, "TAB"), LAMBDA f :
                      Count(f[6], "LF") = 0 /\ Count(f[6], "CR") = 0))

\* emitted text for a card whose rendered fragment holds a newline and a
\* carriage return
FragmentLineAtomicWitness ==
    /\ pc = "generated"
    /\ SeparatorFree(cards)
    /\ Some(cards, LAMBDA cd :
          Count(generate_collocations_html(cd), "LF") > 0
             /\ Count(generate_collocations_html(cd), "CR") > 0)

\* C6: the emitted text is, for every card, its 8 fields with one tab
\* between two fields, and one newline between two records, with nothing
\* after the last record; the eighth field is the first, the seventh is the
\* rank as a string when a rank was attached and empty otherwise.
RecordLayout ==
    pc = "generated" =>
        /\ Len(import_content)
              = SumSeq(MapSeq(cards, LAMBDA cd :
                    7 + SumSeq(MapSeq(PlainFields(cd), Len))
                      + Len(generate_collocations_html(cd))
                      - Count(generate_collocations_html(cd), "LF")
                      - Count(generate_collocations_html(cd), "CR")))
                + (Len(cards) - 1)
        /\ Count(import_content, "TAB")
              = 7 * Len(cards) + CountInPlainFields(cards, "TAB")
                + SumSeq(MapSeq(cards, LAMBDA cd :
                      Count(generate_collocations_html(cd), "TAB")))
        /\ import_content[Len(import_content)] # "LF"
        /\ SeparatorFree(cards) =>
              Bind(Split(import_content, "LF"), LAMBDA lines :
                  /\ Len(lines) = Len(cards)
                  /\ \A i \in 1..Len(lines) :
                        Bind(Split(lines[i], "TAB"), LAMBDA f :
                            /\ Len(f) >= 8
                            /\ f[1] = cards[i].word
                            /\ f[Len(f)] = f[1]
                            /\ f[Len(f) - 1]
                                  = (IF "freq_rank" \in DOMAIN cards[i]
                                     THEN (IF Lower(word) \in DOMAIN freq_map
                                           THEN Str(freq_map[Lower(word)])
                                           ELSE <<>>)
                                     ELSE <<>>)))

\* emitted text for two cards with the rank 12 attached
RecordLayoutWitness ==
    /\ pc = "generated"
    /\ Len(cards) = 2
    /\ SeparatorFree(cards)
    /\ "freq_rank" \in DOMAIN cards[1]
    /\ cards[1].freq_rank = <<"1", "2">>
    /\ cards[1].sense_num # cards[2].sense_num

\* C9: the fragment generate_collocations_html returns for a card holds the
\* groups in the order of the card, in each group its category and then its
\* items in order, in each item its words in order, then its gloss when
\* that is not empty, then its examples in order, each English line
\* directly followed by its secondary line when that is not empty; nothing
\* else, nothing twice, nothing missing.
RendererKeepsOrder ==
    pc = "generated" =>
        All(cards, LAMBDA cd :
            Unrender(generate_collocations_html(cd)) = Flatten(cd))

\* a rendered card with two groups and an item with two words, a gloss and
\* two examples, the first without secondary line
RendererKeepsOrderWitness ==
    /\ pc = "generated"
    /\ Some(cards, LAMBDA cd :
          /\ Len(cd.collocation_groups) >= 2
          /\ Some(cd.collocation_groups, LAMBDA g :
                Some(g.items, LAMBDA it :
                    /\ Len(it.words) >= 2
                    /\ it.chn # <<>>
                    /\ Len(it.examples) >= 2
                    /\ it.examples[1].cn = <<>>
                    /\ it.examples[2].cn # <<>>
                    /\ it.examples[1].en # it.examples[2].en)))

(***************************************************************************)
(* Reference reading of the entries                                        *)
(***************************************************************************)
\* the first node of this tag below n, as a sequence of length 0 or 1
FirstTagged(n, tag) ==
    Bind(NodesTagged(n, tag),
         LAMBDA s : IF s = <<>> THEN <<>> ELSE <<s[1]>>)

\* the entries of a document that have a group, in document order
RefEntries(doc) ==
    SelectSeq(NodesTagged(Elem("[document]", doc), "entry"),
              LAMBDA e : RefGroups(e) # <<>>)

\* the text of the first node of this tag below the first <head> of the
\* entry, empty when the head or the node is missing
RefHeadField(entry, tag) ==
    Bind(FirstTagged(entry, "head"),
         LAMBDA head : IF head = <<>> THEN <<>>
                       ELSE FirstSpanText(head[1], tag))

\* the entry has no <head>, or its first <head> holds no <def>
NoDef(entry) ==
    Bind(FirstTagged(entry, "head"),
         LAMBDA head : head = <<>> \/ NodesTagged(head[1], "def") = <<>>)

\* C11: every returned Sense has a non-empty word, which is the text of the
\* headword node of its entry, or the queried word when the entry has no
\* headword node.
WordNonEmpty ==
    pc # "start" =>
        Bind(RefEntries(html_content), LAMBDA es :
            /\ Len(cards) = Len(es)
            /\ \A i \in 1..Len(cards) :
                  /\ cards[i].word # <<>>
                  /\ cards[i].word
                        = (IF NodesTagged(es[i], "h") = <<>> THEN word
                           ELSE FirstSpanText(es[i], "h")))

\* C12: a document that is empty or has no entry node gives no Sense, and
\* an entry without its head, part of speech, sense number or definition
\* node still gives its Sense when it has a group, the missing fields being
\* empty strings and the others the texts of their nodes.
GracefulDegradation ==
    pc = "parsed" =>
        /\ NodesTagged(DocRoot, "entry") = <<>> => cards = <<>>
        /\ Bind(RefEntries(html_content), LAMBDA es :
              /\ Len(cards) = Len(es)
              /\ \A i \in 1..Len(cards) :
                    /\ cards[i].pos = RefHeadField(es[i], "p")
                    /\ cards[i].sense_num = RefHeadField(es[i], "n-num")
                    /\ NoDef(es[i])
                       => (cards[i].def_en = <<>> /\ cards[i].def_cn = <<>>)
                    /\ NodesTagged(es[i], "head") = <<>>
                       => /\ cards[i].pos = <<>>
                          /\ cards[i].sense_num = <<>>
                          /\ cards[i].def_en = <<>>
                          /\ cards[i].def_cn = <<>>)

\* a Sense from an entry whose head has a part of speech and neither sense
\* number nor definition
GracefulDegradationWitness ==
    /\ pc = "parsed"
    /\ cards # <<>>
    /\ NodesTagged(DocRoot, "head") # <<>>
    /\ NodesTagged(DocRoot, "def") = <<>>
    /\ NodesTagged(DocRoot, "n-num") = <<>>
    /\ cards[1].pos # <<>>
    /\ cards[1].sense_num = <<>>
    /\ cards[1].def_en = <<>>

\* the text of a node as get_text() gives it, nothing stripped
RECURSIVE RawText(_)
RawText(n) ==
    Bind(n, LAMBDA m :
        IF m.tag = "#text" THEN m.text
        ELSE Concat([i \in 1..Len(m.kids) |-> RawText(m.kids[i])]))

\* the title of a block: its first header, or its type code in capitals
RefCategory(blk) ==
    Bind(FirstTagged(blk, "sl-g-head"),
         LAMBDA h : Strip(CollapseSpace(IF h = <<>> THEN Upper(blk.sl)
                                        ELSE RawText(h[1]))))

\* what identifies a Sense and places its groups and items
RefOutline(entry) ==
    [sense_num |-> RefHeadField(entry, "n-num"),
     groups |-> MapSeq(SelectSeq(KeptBlocks(entry),
                                 LAMBDA b : RefItems(b) # <<>>),
                       LAMBDA b : [category |-> RefCategory(b),
                                   items |-> RefItems(b)])]

CardOutline(card) ==
    [sense_num |-> card.sense_num,
     groups |-> MapSeq(card.collocation_groups,
                       LAMBDA g : [category |-> g.category,
                                   items |-> MapSeq(g.items,
                                                    LAMBDA it : it.words)])]

\* C13: the returned sequence has at most one Sense per entry node, the
\* Senses are in the order of their entry nodes, the groups of a Sense in
\* the document order of its kept blocks and the items of a group in the
\* document order of its sub-groups.
SensesInDocumentOrder ==
    pc = "parsed" =>
        /\ Len(cards) <= Len(NodesTagged(DocRoot, "entry"))
        /\ MapSeq(cards, CardOutline)
              = MapSeq(RefEntries(html_content), RefOutline)

\* two Senses from two entries that differ in sense number, one of them
\* with two items of different words
SensesInDocumentOrderWitness ==
    /\ pc = "parsed"
    /\ Len(cards) = 2
    /\ cards[1].sense_num # cards[2].sense_num
    /\ Some(cards, LAMBDA cd :
          Some(cd.collocation_groups, LAMBDA g :
              Len(g.items) >= 2 /\ g.items[1].words # g.items[2].words))

\* the nodes of this tag below n that are not inside a block whose type
\* code is not allow-listed
RECURSIVE NodesOutside(_, _)
NodesOutside(n, tag) ==
    Bind(n, LAMBDA m :
        Concat([i \in 1..Len(m.kids) |->
            Bind(m.kids[i], LAMBDA k :
                (IF k.tag = tag THEN <<k>> ELSE <<>>)
                \o (IF k.tag = "sl-g-blk" /\ k.sl \notin AllowList
                    THEN <<>>
                    ELSE NodesOutside(k, tag)))]))

\* the items, groups and cards when nothing inside a skipped block is read
RefItemsOutside(blk) == NonEmpty(MapSeq(NodesOutside(blk, "sb-g"), RefWords))

RefGroupsOutside(entry) ==
    NonEmpty(MapSeq(SelectSeq(NodesOutside(entry, "sl-g-blk"),
                              LAMBDA b : b.sl \in AllowList),
                    RefItemsOutside))

RefCardsOutside(doc) ==
    NonEmpty(MapSeq(NodesTagged(Elem("[document]", doc), "entry"),
                    RefGroupsOutside))

\* C14: a block whose type code is not allow-listed is skipped with all it
\* holds: the groups and items of the returned Senses are those of the
\* allow-listed blocks and sub-groups that lie in no such block, also when
\* an allow-listed block is nested in one.
DisallowedBlockSkipped ==
    pc # "start" => MapSeq(cards, CardWords) = RefCardsOutside(html_content)

\* the gloss of a sub-group: that of its last direct phrase node that
\* carries one, empty when none does
RefGloss(sb_g) ==
    Bind(SelectSeq(sb_g.kids,
                   LAMBDA m : m.tag = "cl" /\ FirstSpanText(m, "chn") # <<>>),
         LAMBDA carrying :
            IF carrying = <<>> THEN <<>>
            ELSE FirstSpanText(carrying[Len(carrying)], "chn"))

RefGlosses(entry) ==
    MapSeq(SelectSeq(KeptBlocks(entry), LAMBDA b : RefItems(b) # <<>>),
           LAMBDA b : MapSeq(SelectSeq(NodesTagged(b, "sb-g"),
                                       LAMBDA g : RefWords(g) # <<>>),
                             RefGloss))

CardGlosses(card) ==
    MapSeq(card.collocation_groups,
           LAMBDA g : MapSeq(g.items, LAMBDA it : it.chn))

\* C15: the gloss of every item is the gloss of the last direct phrase node
\* of its sub-group that carries one; a later phrase node without a gloss
\* does not clear it, and the gloss is empty only when no phrase node of
\* the sub-group carries one.
LastGlossWins ==
    pc # "start" =>
        MapSeq(cards, CardGlosses)
           = MapSeq(RefEntries(html_content), RefGlosses)

(***************************************************************************)
(* Reference reading of the frequency file and of the batch                *)
(***************************************************************************)
\* the lowercase forms of a line: its maximal runs without whitespace
RefForms(line) ==
    { Lower(SubSeq(line, i, j)) :
        <<i, j>> \in { ij \in (1..Len(line)) \X (1..Len(line)) :
                        /\ ij[1] <= ij[2]
                        /\ \A k \in ij[1]..ij[2] : line[k] \notin Whitespace
                        /\ ij[1] = 1 \/ line[ij[1] - 1] \in Whitespace
                        /\ ij[2] = Len(line)
                              \/ line[ij[2] + 1] \in Whitespace } }

\* the numbers of the lines of the file that hold this form
RefLinesOf(file, form) ==
    IF file.exists
    THEN {n \in 1..Len(file.lines) : form \in RefForms(file.lines[n])}
    ELSE {}

\* the rank of a word as the cards carry it
RefRank(file, w) ==
    LET ns == RefLinesOf(file, Lower(w))
        first == CHOOSE n \in ns : \A m \in ns : n <= m
    IN  IF ns = {} THEN <<>>
        ELSE << <<"1">>, <<"2">>, <<"3">>, <<"4">> >>[first]

\* C16: in the batch every card collected for a queried word carries as
\* frequency rank the decimal string of the rank the table gives for that
\* word in lowercase, or the empty string when the table has no such word;
\* the table maps each lowercase form of the file to the number of the first
\* line that holds it.
RankFromFirstLine ==
    mpc \in {"loaded", "nowords", "loop", "queried", "done", "nocards"} =>
        /\ DOMAIN freq_map
              = {f \in UNION {RefForms(l) : l \in Range(freq_file.lines)} :
                    freq_file.exists}
        /\ \A f \in DOMAIN freq_map :
              /\ freq_map[f] \in RefLinesOf(freq_file, f)
              /\ \A m \in RefLinesOf(freq_file, f) : freq_map[f] <= m
        /\ Len(origin) = Len(all_cards)
        /\ \A k \in 1..Len(all_cards) :
              /\ "freq_rank" \in DOMAIN all_cards[k]
              /\ all_cards[k].freq_rank = RefRank(freq_file, origin[k])

\* a finished batch with a card of a word that the file holds on its first
\* and on its second line, and a card of a word of the second line
RankFromFirstLineWitness ==
    /\ mpc = "done"
    /\ Cardinality(RefLinesOf(freq_file, <<"h", "w">>)) = 2
    /\ \E k \in 1..Len(all_cards) :
          origin[k] = <<"h", "w">> /\ all_cards[k].freq_rank = <<"1">>
    /\ \E k \in 1..Len(all_cards) :
          origin[k] = <<"p", "q">> /\ all_cards[k].freq_rank = <<"2">>

\* the words of a list that are not a repetition, in order
RefUnique(wl) ==
    Bind(SelectSeq([i \in 1..Len(wl) |-> i],
                   LAMBDA i : \A j \in 1..(i - 1) : wl[j] # wl[i]),
         LAMBDA keep : [k \in 1..Len(keep) |-> wl[keep[k]].word])

\* the word fails: no article, or an article without a Sense
RefFails(w) == mdx[w] = <<>> \/ RefCards(mdx[w]) = <<>>

\* C17: in the batch the word list is the delivered list without its
\* repetitions, in first-occurrence order; every word is looked up once, in
\* that order, and parsed once when the lookup gave an article; every
\* processed word is counted in exactly one of success_count and
\* failed_words, in failed_words exactly when the lookup gave nothing or the
\* parse no card; all_cards is the cards of the successful words in word
\* order; at the end success_count + len(failed_words) is the number of
\* distinct words.
BatchBookkeeping ==
    mpc \in {"loop", "queried", "done", "nocards"} =>
        Bind(RefUnique(word_list0), LAMBDA ws :
        Bind(SubSeq(ws, 1, idx - 1), LAMBDA processed :
        Bind(SelectSeq(processed, LAMBDA w : ~RefFails(w)), LAMBDA good :
            /\ [k \in 1..Len(word_list) |-> word_list[k].word] = ws
            /\ queried = SubSeq(ws, 1, IF mpc = "queried" THEN idx ELSE idx - 1)
            /\ parsed = SelectSeq(processed, LAMBDA w : mdx[w] # <<>>)
            /\ failed_words = SelectSeq(processed, RefFails)
            /\ success_count = Len(good)
            /\ success_count + Len(failed_words) = Len(processed)
            /\ origin
                  = Concat(MapSeq(good, LAMBDA w :
                       [k \in 1..Len(RefCards(mdx[w])) |-> w]))
            /\ MapSeq(all_cards, CardOutline)
                  = Concat(MapSeq(good, LAMBDA w :
                       MapSeq(RefEntries(mdx[w]), RefOutline)))
            /\ mpc \in {"done", "nocards"} =>
                  /\ Len(processed) = Len(ws)
                  /\ success_count + Len(failed_words)
                        = Cardinality({word_list0[k].word :
                                          k \in 1..Len(word_list0)}))))

\* a finished batch of a list with a repeated word, with a success and a
\* failure
BatchBookkeepingWitness ==
    /\ mpc = "done"
    /\ Len(word_list0) = 3
    /\ Len(word_list) = 2
    /\ word_list0[1] = word_list0[3]
    /\ word_list0[1] # word_list0[2]
    /\ success_count >= 1
    /\ failed_words # <<>>

\* the example pairs of a sub-group read from the document: for each direct
\* example block its first example node, left out when it has no English
\* text
RefExamples(sb_g) ==
    Concat(MapSeq(SelectSeq(sb_g.kids, LAMBDA m : m.tag = "x-blk"),
                  LAMBDA x_blk :
                     Bind(FirstTagged(x_blk, "x"), LAMBDA x :
                        IF x = <<>> THEN <<>>
                        ELSE Bind(TextExcluding(x[1], {"chn", "chnsep",
                                                       "fthzmark"}),
                                  LAMBDA en :
                                     IF en = <<>> THEN <<>>
                                     ELSE <<[en |-> en,
                                             cn |-> FirstSpanText(x[1],
                                                                  "chn")]>>))))

RefEntryExamples(entry) ==
    Concat(MapSeq(KeptBlocks(entry), LAMBDA b :
        Concat(MapSeq(SelectSeq(NodesTagged(b, "sb-g"),
                                LAMBDA g : RefWords(g) # <<>>),
                      RefExamples))))

\* C7, read on the document: the example pairs of the returned Senses are
\* those of the example nodes of the document, the secondary text being the
\* text of the node's secondary-language span and the English text the
\* node's text without the secondary-language, separator and phonetic-mark
\* spans; an example node without English text gives no pair.
ExamplesFromDocument ==
    pc # "start" =>
        AllExamples(cards)
           = Concat(MapSeq(RefEntries(html_content), RefEntryExamples))

====
